---------------------------- MODULE Spec2Model ----------------------------
(***************************************************************************)
(* Model of src/src/rgraph_ws.cpp (netdiffuseR): ring_lattice builds a    *)
(* ring lattice, rewire_graph_cpp rewires the edges of a graph.            *)
(*                                                                         *)
(* A graph (arma::sp_mat of size n x n) is a function from <<row, col>>,   *)
(* 0-based, to its weight; an absent entry has weight 0.  A value of       *)
(* unif_rand() is the numerator u of the fraction u / UnifDenom, strictly  *)
(* between 0 and 1 as R's generator gives it, and the probability p is the *)
(* numerator of p / UnifDenom.                                             *)
(*                                                                         *)
(* SpecLattice models one call of ring_lattice.  Spec and SpecGeneral model *)
(* one call of rewire_graph_cpp: Spec on the graphs with one linked pair   *)
(* of vertices, SpecGeneral on the graphs with up to MaxEdges non-zero     *)
(* entries; a user interrupt may end either call at the check of line 83.  *)
(* The two functions use the same local names (n, k, i, j,                 *)
(* graph, undirected), so the specifications share those variables.        *)
(***************************************************************************)
EXTENDS Integers, Sequences, FiniteSets

VARIABLES
    pc,          \* position in the function being run
    n,           \* ring_lattice: parameter n; rewire_graph_cpp: graph.n_cols
    k,           \* ring_lattice: parameter k (reassigned at line 31); rewire: column of the edge
    arg_k,       \* ring_lattice: the value of k the caller passed
    undirected,  \* parameter undirected of either function
    graph,       \* ring_lattice: the matrix being filled; rewire: the input graph
    i,           \* loop counter of the outer for loop of either function
    j,           \* ring_lattice: inner loop counter; rewire: row of the edge
    p,           \* rewire: parameter p (numerator over UnifDenom)
    both_ends,   \* rewire: parameter both_ends
    self,        \* rewire: parameter self
    multiple,    \* rewire: parameter multiple
    newgraph,    \* rewire: the working copy that is returned
    indexes,     \* rewire: the (row, col) pairs of the non-zero entries of graph
    newj,        \* rewire: new row of the edge
    newk,        \* rewire: candidate new column of the edge
    wcount,      \* rewire: number of redraws of an already picked candidate
    conditions,  \* rewire: TRUE until a candidate passes every test
    picked       \* rewire: picked[v] = 1 once v was drawn in this search

vars == <<pc, n, k, arg_k, undirected, graph, i, j, p, both_ends, self, multiple,
          newgraph, indexes, newj, newk, wcount, conditions, picked>>

---------------------------------------------------------------------------
(* Bounds of the model.                                                    *)

\* Largest number of vertices of a graph given to rewire_graph_cpp.
MaxN == 3

\* Largest number of non-zero entries of a graph given to rewire_graph_cpp
\* under SpecGeneral.
MaxEdges == 2

\* Largest weight of an entry of a graph given to rewire_graph_cpp.
MaxW == 2

\* Largest n given to ring_lattice.
MaxLatticeN == 5

\* unif_rand() returns u / UnifDenom for u in 1 .. UnifDenom-1: a grid on
\* the open interval (0,1), which is where R's unif_rand() takes its values
\* (it returns neither 0 nor 1), fine enough to tell the n cells of
\* floor(n * u) apart.
UnifDenom == MaxN + 1

\* The values unif_rand() returns (numerators).
Unif == 1 .. (UnifDenom - 1)

\* The values of p the model tries: 0, 1/2 (rounded down on the grid), 1.
PSet == {0, UnifDenom \div 2, UnifDenom}

\* Value of a local variable that is out of scope or not yet assigned.
NoVal == -1

\* if (i % 1000 == 0) Rcpp::checkUserInterrupt();
CheckEvery == 1000

---------------------------------------------------------------------------
(* Matrices.                                                               *)

Vertices(n_) == 0 .. (n_ - 1)

Pos(n_) == Vertices(n_) \X Vertices(n_)

\* arma::sp_mat graph(n,n): every entry is zero.
ZeroMat(n_) == [e \in Pos(n_) |-> 0]

\* arma::uvec picked(n, arma::fill::zeros)
ZeroVec(n_) == [v \in Vertices(n_) |-> 0]

RECURSIVE SumOver(_, _)
SumOver(g, S) ==
    IF S = {} THEN 0
    ELSE LET e == CHOOSE x \in S : TRUE
         IN  g[e] + SumOver(g, S \ {e})

\* The sum of all the entries of g.
Accu(g) == SumOver(g, DOMAIN g)

\* The sum of the entries of row r of g (the degree of vertex r).
RowSum(g, n_, r) == SumOver(g, {r} \X Vertices(n_))

\* The number of non-zero entries of g.
NNZ(g) == Cardinality({e \in DOMAIN g : g[e] # 0})

IsSymmetric(g, n_) == \A r, c \in Vertices(n_) : g[<<r, c>>] = g[<<c, r>>]

ZeroDiagonal(g, n_) == \A v \in Vertices(n_) : g[<<v, v>>] = 0

\* The graphs on n_ vertices whose non-zero entries link one pair of vertices
\* a, b: entry (a,b) and its mirror (b,a), each of weight 0 .. MaxW.  They
\* are the empty graph, the single directed edges, the single self-loops and
\* the single undirected edges, stored symmetrically or not.
PairGraphs(n_) ==
    { [e \in Pos(n_) |-> IF e = <<a, b>> THEN w1 ELSE IF e = <<b, a>> THEN w2 ELSE 0]
      : a \in Vertices(n_), b \in Vertices(n_), w1 \in 0 .. MaxW, w2 \in 0 .. MaxW }

\* The graphs on n_ vertices with at most MaxEdges non-zero entries, each of
\* weight 1 .. MaxW.
InputGraphs(n_) ==
    UNION { { [e \in Pos(n_) |-> IF e \in T THEN wt[e] ELSE 0] : wt \in [T -> 1 .. MaxW] }
            : T \in { T \in SUBSET Pos(n_) : Cardinality(T) <= MaxEdges } }

\* sparse_indexes(graph): the (row, col) pairs of the non-zero entries, in the
\* column-major order in which arma::sp_mat stores them.
sparse_indexes(g, n_) ==
    LET all == [t \in 1 .. (n_ * n_) |-> << (t - 1) % n_, (t - 1) \div n_ >>]
    IN  SelectSeq(all, LAMBDA e : g[e] # 0)

\* floor( (n-1)*unif_rand() )
floor_unif(n_, u) == ((n_ - 1) * u) \div UnifDenom

---------------------------------------------------------------------------
(* ring_lattice(n, k, undirected)                                          *)

\* The locals of rewire_graph_cpp, unused while ring_lattice runs.
RewireIdle ==
    /\ p = 0 /\ both_ends = FALSE /\ self = FALSE /\ multiple = FALSE
    /\ newgraph = << >> /\ indexes = << >>
    /\ newj = NoVal /\ newk = NoVal /\ wcount = 0 /\ conditions = TRUE
    /\ picked = << >>

UnchangedRewire ==
    UNCHANGED <<p, both_ends, self, multiple, newgraph, indexes, newj, newk,
                wcount, conditions, picked>>

\* The call: any n in 1 .. MaxLatticeN, any k in 0 .. MaxLatticeN.
InitLattice ==
    /\ pc = "rl_entry"
    /\ n \in 1 .. MaxLatticeN
    /\ k \in 0 .. MaxLatticeN
    /\ arg_k = k
    /\ undirected \in BOOLEAN
    /\ graph = << >>
    /\ i = NoVal
    /\ j = NoVal
    /\ RewireIdle

\* A variant of AdjustK that forgets the test of undirected.
AdjustK_always(k_, undirected_) ==
    IF k_ > 1 THEN k_ \div 2 ELSE k_

\* if (undirected) if (k>1) k = (int) floor((double) k/2.0);
AdjustK(k_, undirected_) ==
    IF undirected_ /\ k_ > 1 THEN k_ \div 2 ELSE k_

\* if ((n-1) < k) stop("k can be at most n - 1");
rl_Stop ==
    /\ pc = "rl_entry"
    /\ (n - 1) < k
    /\ pc' = "rl_stop"
    /\ UNCHANGED <<n, k, arg_k, undirected, graph, i, j>>
    /\ UnchangedRewire

\* arma::sp_mat graph(n,n); the adjustment of k; entry of the outer loop.
rl_Enter ==
    /\ pc = "rl_entry"
    /\ ~((n - 1) < k)
    /\ graph' = ZeroMat(n)
    /\ k' = AdjustK(k, undirected)
    /\ i' = 0
    /\ j' = 1
    /\ pc' = "rl_for"
    /\ UNCHANGED <<n, arg_k, undirected>>
    /\ UnchangedRewire

\* int l = i+j; if (l >= n) l = l - n;
NextNeighbor(i_, j_, n_) ==
    LET l == i_ + j_ IN IF l >= n_ THEN l - n_ ELSE l

\* A variant of Connect that forgets the mirrored entry of line 41.
Connect_nomirror(g, i_, l, undirected_) ==
    [g EXCEPT ![<<i_, l>>] = @ + 1]

\* graph.at(i,l) += 1.0; if (undirected) graph.at(l,i) += 1.0;
Connect(g, i_, l, undirected_) ==
    LET g1 == [g EXCEPT ![<<i_, l>>] = @ + 1]
    IN  IF undirected_ THEN [g1 EXCEPT ![<<l, i_>>] = @ + 1] ELSE g1

\* One pass of the inner loop: for (int j=1;j<=k;j++) { ... }
rl_Inner ==
    /\ pc = "rl_for"
    /\ i < n
    /\ j <= k
    /\ graph' = Connect(graph, i, NextNeighbor(i, j, n), undirected)
    /\ j' = j + 1
    /\ UNCHANGED <<pc, n, k, arg_k, undirected, i>>
    /\ UnchangedRewire

\* The inner loop ends: the next pass of for (int i=0;i<n;i++).
rl_Outer ==
    /\ pc = "rl_for"
    /\ i < n
    /\ j > k
    /\ i' = i + 1
    /\ j' = 1
    /\ UNCHANGED <<pc, n, k, arg_k, undirected, graph>>
    /\ UnchangedRewire

\* return graph;
rl_Return ==
    /\ pc = "rl_for"
    /\ i >= n
    /\ pc' = "rl_done"
    /\ UNCHANGED <<n, k, arg_k, undirected, graph, i, j>>
    /\ UnchangedRewire

NextLattice ==
    \/ rl_Stop
    \/ rl_Enter
    \/ rl_Inner
    \/ rl_Outer
    \/ rl_Return

SpecLattice == InitLattice /\ [][NextLattice]_vars

---------------------------------------------------------------------------
(* rewire_graph_cpp(graph, p, both_ends, self, multiple, undirected)       *)

\* The state after the call's first statements,
\*   arma::sp_mat newgraph(graph); int n = graph.n_cols;
\*   arma::umat indexes = sparse_indexes(graph);
\* at the entry of the for loop, for the input graph g on n_ vertices.
Called(n_, g) ==
    /\ pc = "for"
    /\ n = n_
    /\ graph = g
    /\ p \in PSet
    /\ both_ends \in BOOLEAN
    /\ self \in BOOLEAN
    /\ multiple \in BOOLEAN
    /\ undirected \in BOOLEAN
    /\ newgraph = graph
    /\ indexes = sparse_indexes(graph, n)
    /\ i = 0
    /\ j = NoVal
    /\ k = NoVal
    /\ arg_k = NoVal
    /\ newj = NoVal
    /\ newk = NoVal
    /\ wcount = 0
    /\ conditions = TRUE
    /\ picked = << >>

\* A variant of Keeps with the comparison turned around.
Keeps_reversed(u, p_) == u < p_

\* unif_rand() > p: the edge is left where it is.
Keeps(u, p_) == u > p_

\* A call on a graph with one linked pair of vertices, with any parameters.
Init == \E n_ \in 1 .. MaxN : \E g \in PairGraphs(n_) : Called(n_, g)

\* A call on a graph with at most MaxEdges non-zero entries, with any parameters.
InitGeneral == \E n_ \in 1 .. MaxN : \E g \in InputGraphs(n_) : Called(n_, g)

UnchangedParams ==
    UNCHANGED <<n, arg_k, undirected, graph, p, both_ends, self, multiple, indexes>>

\* if (i % 1000 == 0) Rcpp::checkUserInterrupt(); with a user interrupt
\* pending: the check throws, the call is left at the head of the pass, before
\* any draw of the pass, without a returned graph (PutRNGstate() is not
\* reached).  Whether an interrupt is pending is the environment's choice.
rw_Interrupt ==
    /\ pc = "for"
    /\ i < Len(indexes)
    /\ i % CheckEvery = 0
    /\ pc' = "interrupted"
    /\ UNCHANGED <<i, j, k, newgraph, newj, newk, wcount, conditions, picked>>
    /\ UnchangedParams

\* The check of lines 82-83 finds no interrupt (or is not due), then
\* if (unif_rand() > p) continue;
rw_Keep(u) ==
    /\ pc = "for"
    /\ i < Len(indexes)
    /\ Keeps(u, p)
    /\ i' = i + 1
    /\ UNCHANGED <<pc, j, k, newgraph, newj, newk, wcount, conditions, picked>>
    /\ UnchangedParams

\* if (undirected && (j < k) ) continue;
rw_SkipUpper(u) ==
    /\ pc = "for"
    /\ i < Len(indexes)
    /\ ~Keeps(u, p)
    /\ undirected /\ indexes[i + 1][1] < indexes[i + 1][2]
    /\ i' = i + 1
    /\ UNCHANGED <<pc, j, k, newgraph, newj, newk, wcount, conditions, picked>>
    /\ UnchangedParams

\* The edge is to be rewired: j, k, newj are set and the search begins.
\*   if (both_ends) newj = floor( (n-1)*unif_rand() ); else newj = j;
\*   int wcount = 0; bool conditions = true; arma::uvec picked(n, zeros);
rw_Begin(u, u2) ==
    /\ pc = "for"
    /\ i < Len(indexes)
    /\ ~Keeps(u, p)
    /\ ~(undirected /\ indexes[i + 1][1] < indexes[i + 1][2])
    /\ j' = indexes[i + 1][1]
    /\ k' = indexes[i + 1][2]
    /\ newj' = IF both_ends THEN floor_unif(n, u2) ELSE j'
    /\ newk' = NoVal
    /\ wcount' = 0
    /\ conditions' = TRUE
    /\ picked' = ZeroVec(n)
    /\ pc' = "while"
    /\ UNCHANGED <<i, newgraph>>
    /\ UnchangedParams

\* The tests of lines 117-123 that send a fresh candidate back to the draw.
\*   if (undirected && (newj < newk)) continue;
\*   if (!self && newj == newk) continue;
\*   if (!multiple && (newgraph.at(newj, newk) != 0)) continue;
Rejected(g, newj_, newk_, undirected_, self_, multiple_) ==
    \/ undirected_ /\ newj_ < newk_
    \/ ~self_ /\ newj_ = newk_
    \/ ~multiple_ /\ g[<<newj_, newk_>>] # 0

\* A variant of rw_While that forgets to count a redraw of a picked value.
rw_While_nocount(u) ==
    /\ pc = "while"
    /\ newk' = floor_unif(n, u)
    /\ IF picked[newk'] = 1
       THEN UNCHANGED <<wcount, pc, picked, conditions>>
       ELSE /\ picked' = [picked EXCEPT ![newk'] = 1]
            /\ wcount' = wcount
            /\ IF Rejected(newgraph, newj, newk', undirected, self, multiple)
               THEN UNCHANGED <<pc, conditions>>
               ELSE conditions' = FALSE /\ pc' = "move"
    /\ UNCHANGED <<i, j, k, newj, newgraph>>
    /\ UnchangedParams

\* One pass of while (conditions) { ... }: a draw of newk, then
\*   if (picked.at(newk)) { if (++wcount >= n*n) break; continue; }
\*   else picked.at(newk) = 1;
\* then the tests, then conditions = false.
rw_While(u) ==
    /\ pc = "while"
    /\ newk' = floor_unif(n, u)
    /\ IF picked[newk'] = 1
       THEN /\ wcount' = wcount + 1
            /\ pc' = IF wcount' >= n * n THEN "move" ELSE "while"
            /\ UNCHANGED <<picked, conditions>>
       ELSE /\ picked' = [picked EXCEPT ![newk'] = 1]
            /\ wcount' = wcount
            /\ IF Rejected(newgraph, newj, newk', undirected, self, multiple)
               THEN UNCHANGED <<pc, conditions>>
               ELSE conditions' = FALSE /\ pc' = "move"
    /\ UNCHANGED <<i, j, k, newj, newgraph>>
    /\ UnchangedParams

\* A variant of Rewired that forgets the mirrored addition of line 135.
Rewired_nomirror(g, j_, k_, newj_, newk_, undirected_) ==
    LET w  == g[<<j_, k_>>]
        g1 == [g EXCEPT ![<<j_, k_>>] = 0]
        g2 == IF undirected_ THEN [g1 EXCEPT ![<<k_, j_>>] = 0] ELSE g1
    IN  [g2 EXCEPT ![<<newj_, newk_>>] = @ + w]

\* Lines 128-135: the weight of (j,k) is moved to (newj,newk).
\*   double w = newgraph.at(j,k);
\*   newgraph.at(j,k) = 0;          if (undirected) newgraph.at(k,j) = 0;
\*   newgraph.at(newj,newk) += w;   if (undirected) newgraph.at(newk,newj) += w;
Rewired(g, j_, k_, newj_, newk_, undirected_) ==
    LET w  == g[<<j_, k_>>]
        g1 == [g EXCEPT ![<<j_, k_>>] = 0]
        g2 == IF undirected_ THEN [g1 EXCEPT ![<<k_, j_>>] = 0] ELSE g1
        g3 == [g2 EXCEPT ![<<newj_, newk_>>] = @ + w]
    IN  IF undirected_ THEN [g3 EXCEPT ![<<newk_, newj_>>] = @ + w] ELSE g3

\* The search is over: the weight is moved, the pass of the for loop ends and
\* its locals go out of scope.
rw_Move ==
    /\ pc = "move"
    /\ newgraph' = Rewired(newgraph, j, k, newj, newk, undirected)
    /\ i' = i + 1
    /\ j' = NoVal
    /\ k' = NoVal
    /\ newj' = NoVal
    /\ newk' = NoVal
    /\ wcount' = 0
    /\ conditions' = TRUE
    /\ picked' = << >>
    /\ pc' = "for"
    /\ UnchangedParams

\* return newgraph;
rw_Return ==
    /\ pc = "for"
    /\ ~(i < Len(indexes))
    /\ pc' = "done"
    /\ UNCHANGED <<i, j, k, newgraph, newj, newk, wcount, conditions, picked>>
    /\ UnchangedParams

Next ==
    \/ rw_Interrupt
    \/ \E u \in Unif : rw_Keep(u)
    \/ \E u \in Unif : rw_SkipUpper(u)
    \/ \E u, u2 \in Unif : rw_Begin(u, u2)
    \/ \E u \in Unif : rw_While(u)
    \/ rw_Move
    \/ rw_Return

Spec == Init /\ [][Next]_vars

SpecGeneral == InitGeneral /\ [][Next]_vars

---------------------------------------------------------------------------
(* Properties of ring_lattice, checked under SpecLattice.                  *)

\* C5: for n >= 1 and 0 <= k <= n-1, the directed lattice that ring_lattice
\* returns has weight 1 at (r, (r+d) mod n) for d in 1 .. k and weight 0
\* elsewhere: n*k non-zero entries, and every vertex has out-degree k.
C5_DirectedLattice ==
    (pc = "rl_done" /\ ~undirected) =>
        /\ \A r, c \in Vertices(n) :
              graph[<<r, c>>] = IF \E d \in 1 .. arg_k : c = (r + d) % n THEN 1 ELSE 0
        /\ NNZ(graph) = n * arg_k
        /\ \A r \in Vertices(n) : RowSum(graph, n, r) = arg_k

\* A directed lattice whose neighbours wrap around the end of the ring.
C5_Witness ==
    /\ pc = "rl_done" /\ ~undirected
    /\ n >= 4 /\ arg_k = n - 1
    /\ graph[<<n - 1, n - 2>>] = 1

\* C6: for 1 < k <= n-1, the undirected lattice that ring_lattice returns is
\* symmetric and every vertex has degree 2*floor(k/2).
C6_UndirectedLattice ==
    (pc = "rl_done" /\ undirected /\ arg_k > 1) =>
        /\ IsSymmetric(graph, n)
        /\ \A r \in Vertices(n) : RowSum(graph, n, r) = 2 * (arg_k \div 2)

\* An undirected lattice built from the odd k = 3: each vertex is linked to
\* its two nearest neighbours only.
C6_Witness ==
    /\ pc = "rl_done" /\ undirected
    /\ arg_k = 3 /\ n >= 5
    /\ graph[<<0, 1>>] = 1 /\ graph[<<0, n - 1>>] = 1 /\ graph[<<0, 2>>] = 0

\* C7: for k <= n-1, every vertex of the undirected lattice that ring_lattice
\* returns has degree at most k.
C7_DegreeAtMostK ==
    (pc = "rl_done" /\ undirected) =>
        \A r \in Vertices(n) : RowSum(graph, n, r) <= arg_k

---------------------------------------------------------------------------
(* Properties of rewire_graph_cpp, checked under Spec and SpecGeneral.     *)

\* C1: the graph rewire_graph_cpp returns has the same sum of weights as the
\* graph it was given.
C1_WeightConserved ==
    pc = "done" => Accu(newgraph) = Accu(graph)

\* C2: with self = false and a graph with a zero diagonal, the returned graph
\* has a zero diagonal.
C2_NoSelfLoops ==
    (pc = "done" /\ ~self /\ ZeroDiagonal(graph, n)) => ZeroDiagonal(newgraph, n)

\* C3: with multiple = false and both_ends = false and a graph whose non-zero
\* weights are all 1, every entry of the returned graph has weight at most 1.
C3_NoMultiEdges ==
    (pc = "done" /\ ~multiple /\ ~both_ends /\ \A e \in Pos(n) : graph[e] <= 1) =>
        \A e \in Pos(n) : newgraph[e] <= 1

\* C4: with p = 0 the returned graph equals the graph given, whatever
\* unif_rand() returns: no edge is selected, so the working copy is the
\* graph given all along.
C4_ZeroPIsIdentity ==
    (pc \in {"for", "while", "move", "done"} /\ p = 0) =>
        /\ newgraph = graph
        /\ pc \in {"for", "done"}

\* A call with p = 0 on a graph with two edges has returned.
C4_Witness ==
    /\ pc = "done" /\ p = 0
    /\ n = 3 /\ NNZ(graph) = 2
    /\ i = 2

\* The vertices that floor( (n-1)*unif_rand() ) can yield on n_ vertices.
DrawRange(n_) == { floor_unif(n_, u) : u \in Unif }

\* C9: for n >= 2 the candidate newk (and newj when both_ends) is drawn from
\* the whole range 0 .. n-1: every vertex, n-1 included, can be drawn.
C9_DrawsEveryVertex ==
    (pc = "while" /\ n >= 2) => DrawRange(n) = Vertices(n)

\* The number of draws of newk made so far by the search in progress: each
\* draw either marks a fresh value as picked or adds one to wcount.
Draws == Cardinality({ v \in DOMAIN picked : picked[v] = 1 }) + wcount

\* The largest number of draws of one search: n fresh values and n*n redraws.
MaxDraws == n * n + n

\* An upper bound of the number of steps rewire_graph_cpp has yet to take.
Measure ==
    LET left == Len(indexes) - i
        pass == MaxDraws + 3
    IN  CASE pc = "done"  -> 0
          [] pc = "interrupted" -> 0
          [] pc = "for"   -> left * pass + 1
          [] pc = "while" -> (left - 1) * pass + 1 + (MaxDraws + 2 - Draws)
          [] pc = "move"  -> (left - 1) * pass + 1 + 1
          [] OTHER        -> 0

\* C8: the search for the new target ends after finitely many draws whatever
\* is drawn: every draw adds one to the number of draws, which never exceeds
\* n*n + n; the search ends either with a candidate that passes every enabled
\* test or with wcount = n*n; and every step of rewire_graph_cpp lowers a
\* natural-number measure, so the call ends: it returns, unless a user
\* interrupt takes it out at the head of a pass.
C8_SearchTerminates ==
    [][ /\ Measure' < Measure
        /\ Measure' >= 0
        /\ pc = "while" =>
              /\ pc' \in {"while", "move"}
              /\ Draws' = Draws + 1
              /\ Draws' <= MaxDraws
              /\ pc' = "while" => (conditions' /\ wcount' < n * n)
              /\ pc' = "move" =>
                    \/ /\ ~conditions'
                       /\ ~Rejected(newgraph, newj, newk', undirected, self, multiple)
                    \/ /\ conditions'
                       /\ wcount' = n * n
      ]_vars

\* A search on three vertices that drew both values it can draw, had both
\* rejected, and ended by the repeat limit.
C8_Witness ==
    /\ pc = "move" /\ conditions /\ wcount = n * n
    /\ n = 3 /\ picked[0] = 1 /\ picked[1] = 1

\* C10: with undirected = true and a symmetric graph, the working copy is
\* symmetric after every pass of the for loop, and so is the returned graph.
C10_SymmetryKept ==
    (undirected /\ IsSymmetric(graph, n)) => IsSymmetric(newgraph, n)

\* A returned graph whose edge was rewired by a search that hit the repeat
\* limit: with self = false only that search puts weight on the diagonal.
C10_Witness ==
    /\ pc = "done" /\ undirected /\ ~self
    /\ IsSymmetric(graph, n) /\ ZeroDiagonal(graph, n)
    /\ \E r, c \in Vertices(n) : r # c /\ graph[<<r, c>>] # 0
    /\ ~ZeroDiagonal(newgraph, n)

===========================================================================
